---------------------------- MODULE Spec2Model ----------------------------
(***************************************************************************)
(* Model of nkd-w4 `prim.rs`: the packed RGB `Color` value with its        *)
(* channel views, and the `Palette` handle guarded by the process-wide     *)
(* `PALETTE` spin mutex over the host's 4-entry palette register.          *)
(*                                                                         *)
(* A u32 is modelled as its four bytes indexed by significance: w[k] holds *)
(* bits 8k..8k+7.  The in-memory byte order of a word is derived from that *)
(* by the target's endianness (to_ne_bytes / from_ne_bytes).               *)
(***************************************************************************)
EXTENDS Integers, Sequences, FiniteSets, TLC

VARIABLES
    endian,     \* target_endian the crate is built for: "little" or "big"
    x,          \* a local `let mut x: Color`
    y,          \* a second local `let y: Color`
    cop,        \* the Color operation executed last
    cargs,      \* its u8 arguments
    cch,        \* its ColorChannel argument, or "none"
    cret,       \* the u8 it returned, or -1
    craw,       \* the u32 it took or returned: <<w>>, or <<>>
    locked,     \* the atomic flag inside PALETTE: Mutex<Palette>
    pc,         \* per caller: "idle", "spinning", "holding", "reentering"
    handles,    \* per caller: number of live MutexGuard<Palette> it owns
    reg,        \* the host-resident palette register *w4::PALETTE, 4 words
    tmp,        \* the stack slot of the temporary made by `unsafe { *w4::PALETTE }`
    pop,        \* the Palette operation executed last
    pslot,      \* its PaletteColor argument
    pval,       \* the Color assigned by the last `palette[slot] = c`
    pret        \* the Color obtained by the last read `palette[slot]`

colorVars   == <<endian, x, y, cop, cargs, cch, cret, craw>>
paletteVars == <<locked, pc, handles, reg, tmp, pop, pslot, pval, pret>>
vars        == <<endian, x, y, cop, cargs, cch, cret, craw,
                 locked, pc, handles, reg, tmp, pop, pslot, pval, pret>>

----------------------------------------------------------------------------
(* Bounds of the model *)

NumBytes   == 2
NumWords   == 1
NumCallers == 2

ByteSamples == <<10, 20, 30, 255, 0, 128, 1>>

Bytes == { ByteSamples[i] : i \in 1..NumBytes }

----------------------------------------------------------------------------
(* 8-bit and 32-bit arithmetic *)

RECURSIVE BitAnd8(_, _)
BitAnd8(a, b) ==
    IF a = 0 \/ b = 0 THEN 0
    ELSE (a % 2) * (b % 2) + 2 * BitAnd8(a \div 2, b \div 2)

RECURSIVE BitOr8(_, _)
BitOr8(a, b) ==
    IF a = 0 THEN b
    ELSE IF b = 0 THEN a
    ELSE (IF a % 2 = 1 \/ b % 2 = 1 THEN 1 ELSE 0) + 2 * BitOr8(a \div 2, b \div 2)

\* the u32 0x b3 b2 b1 b0
Word(b3, b2, b1, b0) == [k \in 0..3 |-> CASE k = 0 -> b0 [] k = 1 -> b1
                                          [] k = 2 -> b2 [] k = 3 -> b3]

\* `v as u32` for v: u8
AsU32(v) == Word(0, 0, 0, v)

\* `w << n` on u32 for n a multiple of 8 below 32: bits shifted out are dropped
Shl(w, n) == [k \in 0..3 |-> IF k - (n \div 8) >= 0 THEN w[k - (n \div 8)] ELSE 0]

And32(a, b) == [k \in 0..3 |-> BitAnd8(a[k], b[k])]

Or32(a, b) == [k \in 0..3 |-> BitOr8(a[k], b[k])]

\* memory image of a u32: byte at offset i
to_ne_bytes(e, w) == [i \in 0..3 |-> IF e = "little" THEN w[i] ELSE w[3 - i]]

\* the u32 whose memory image is m
from_ne_bytes(e, m) == [k \in 0..3 |-> IF e = "little" THEN m[k] ELSE m[3 - k]]

WordSamples == << Word(1, 10, 20, 10), Word(255, 10, 10, 10), Word(128, 30, 20, 10),
                  Word(0, 255, 255, 255), Word(7, 0, 0, 0) >>

Words == { WordSamples[i] : i \in 1..NumWords }

----------------------------------------------------------------------------
(* struct Color(u32) *)

\* the tuple struct Color(w); field .0 is c[1]
MkColor(w) == <<w>>

\* rgb with the red and green shifts exchanged
rgb_swapped(red, green, blue) ==
    MkColor(Or32(Or32(Shl(AsU32(red), 8), Shl(AsU32(green), 16)), Shl(AsU32(blue), 0)))

rgb(red, green, blue) ==
    LET r1 == Shl(AsU32(red), 16)
        g1 == Shl(AsU32(green), 8)
        b1 == Shl(AsU32(blue), 0)
    IN  MkColor(Or32(Or32(r1, g1), b1))

grayscale(value) == rgb(value, value, value)

with_red(self, red) ==
    MkColor(Or32(And32(self[1], Word(255, 0, 255, 255)), Shl(AsU32(red), 16)))

\* with_green that ORs the new byte in without clearing the old one
with_green_nomask(self, green) ==
    MkColor(Or32(self[1], Shl(AsU32(green), 8)))

with_green(self, green) ==
    MkColor(Or32(And32(self[1], Word(255, 255, 0, 255)), Shl(AsU32(green), 8)))

with_blue(self, blue) ==
    MkColor(Or32(And32(self[1], Word(255, 255, 255, 0)), Shl(AsU32(blue), 0)))

BLACK == rgb(0, 0, 0)

ColorChannel == {"Red", "Green", "Blue"}

\* the big-endian table used whatever the target
ChannelOffset_big(e, channel) ==
    CASE channel = "Red" -> 1 [] channel = "Green" -> 2 [] channel = "Blue" -> 3

\* the byte offset selected by #[cfg(target_endian = ...)]
ChannelOffset(e, channel) ==
    IF e = "little"
    THEN CASE channel = "Red" -> 2 [] channel = "Green" -> 1 [] channel = "Blue" -> 0
    ELSE CASE channel = "Red" -> 1 [] channel = "Green" -> 2 [] channel = "Blue" -> 3

\* *(self as *const u8).add(index)
Color_index(e, self, channel) ==
    to_ne_bytes(e, self[1])[ChannelOffset(e, channel)]

\* a channel write that rebuilds the value from its three channels
Color_index_mut_rebuild(e, self, channel, v) ==
    rgb(IF channel = "Red" THEN v ELSE Color_index(e, self, "Red"),
        IF channel = "Green" THEN v ELSE Color_index(e, self, "Green"),
        IF channel = "Blue" THEN v ELSE Color_index(e, self, "Blue"))

\* *(self as *mut u8).add(index) = v
Color_index_mut(e, self, channel, v) ==
    MkColor(from_ne_bytes(e,
        [to_ne_bytes(e, self[1]) EXCEPT ![ChannelOffset(e, channel)] = v]))

\* a conversion that keeps the 24 significant bits only
Color_from_masked(source) == MkColor(And32(source, Word(0, 255, 255, 255)))

\* impl From<u32> for Color
Color_from(source) == MkColor(source)

\* impl From<Color> for u32
u32_from(source) == source[1]

----------------------------------------------------------------------------
(* Operations on a Color value: a program working on the local x *)

NoValue == "none"

NoColor == <<>>

\* the palette side at rest: PALETTE unlocked, no caller, register all BLACK
PaletteAtRest ==
    /\ locked = FALSE
    /\ pc = [c \in 1..NumCallers |-> "idle"]
    /\ handles = [c \in 1..NumCallers |-> 0]
    /\ reg = [i \in 0..3 |-> u32_from(BLACK)]
    /\ tmp = [i \in 0..3 |-> u32_from(BLACK)]
    /\ pop = "none"
    /\ pslot = NoValue
    /\ pval = NoColor
    /\ pret = NoColor

\* let mut x = Color::default();
InitColor ==
    /\ endian \in {"little", "big"}
    /\ x = BLACK
    /\ y = BLACK
    /\ cop = "default"
    /\ cargs = <<>>
    /\ cch = NoValue
    /\ cret = -1
    /\ craw = <<>>
    /\ PaletteAtRest

\* x = Color::rgb(r, g, b)
Rgb(r, g, b) ==
    /\ x' = rgb(r, g, b)
    /\ cop' = "rgb"
    /\ cargs' = <<r, g, b>>
    /\ cch' = NoValue
    /\ cret' = -1
    /\ craw' = <<>>
    /\ UNCHANGED <<endian, y, paletteVars>>

\* x = Color::grayscale(v)
Grayscale(v) ==
    /\ x' = grayscale(v)
    /\ cop' = "grayscale"
    /\ cargs' = <<v>>
    /\ cch' = NoValue
    /\ cret' = -1
    /\ craw' = <<>>
    /\ UNCHANGED <<endian, y, paletteVars>>

\* x = x.with_red(v)
WithRed(v) ==
    /\ x' = with_red(x, v)
    /\ cop' = "with_red"
    /\ cargs' = <<v>>
    /\ cch' = NoValue
    /\ cret' = -1
    /\ craw' = <<>>
    /\ UNCHANGED <<endian, y, paletteVars>>

\* x = x.with_green(v)
WithGreen(v) ==
    /\ x' = with_green(x, v)
    /\ cop' = "with_green"
    /\ cargs' = <<v>>
    /\ cch' = NoValue
    /\ cret' = -1
    /\ craw' = <<>>
    /\ UNCHANGED <<endian, y, paletteVars>>

\* x = x.with_blue(v)
WithBlue(v) ==
    /\ x' = with_blue(x, v)
    /\ cop' = "with_blue"
    /\ cargs' = <<v>>
    /\ cch' = NoValue
    /\ cret' = -1
    /\ craw' = <<>>
    /\ UNCHANGED <<endian, y, paletteVars>>

\* let v = x[ch]
ReadChannel(ch) ==
    /\ cret' = Color_index(endian, x, ch)
    /\ cop' = "index"
    /\ cargs' = <<>>
    /\ cch' = ch
    /\ craw' = <<>>
    /\ UNCHANGED <<endian, x, y, paletteVars>>

\* x[ch] = v
WriteChannel(ch, v) ==
    /\ x' = Color_index_mut(endian, x, ch, v)
    /\ cop' = "index_mut"
    /\ cargs' = <<v>>
    /\ cch' = ch
    /\ cret' = -1
    /\ craw' = <<>>
    /\ UNCHANGED <<endian, y, paletteVars>>

\* x = Color::from(s)
FromU32(s) ==
    /\ x' = Color_from(s)
    /\ cop' = "from_u32"
    /\ cargs' = <<>>
    /\ cch' = NoValue
    /\ cret' = -1
    /\ craw' = <<s>>
    /\ UNCHANGED <<endian, y, paletteVars>>

\* let n = u32::from(x)
IntoU32 ==
    /\ craw' = <<u32_from(x)>>
    /\ cop' = "u32_from"
    /\ cargs' = <<>>
    /\ cch' = NoValue
    /\ cret' = -1
    /\ UNCHANGED <<endian, x, y, paletteVars>>

NextColor ==
    \/ \E r \in Bytes, g \in Bytes, b \in Bytes : Rgb(r, g, b)
    \/ \E v \in Bytes : Grayscale(v)
    \/ \E v \in Bytes : WithRed(v)
    \/ \E v \in Bytes : WithGreen(v)
    \/ \E v \in Bytes : WithBlue(v)
    \/ \E ch \in ColorChannel : ReadChannel(ch)
    \/ \E ch \in ColorChannel, v \in Bytes : WriteChannel(ch, v)
    \/ \E s \in Words : FromU32(s)
    \/ IntoU32

SpecColor == InitColor /\ [][NextColor]_vars

----------------------------------------------------------------------------
(* Two Color values side by side: every value the public constructors and  *)
(* mutators can produce, held in x and in y, with no operation log.        *)

\* the Colors one public operation yields from c
Obtainable(e, c) ==
    {rgb(r, g, b) : r \in Bytes, g \in Bytes, b \in Bytes}
        \cup {grayscale(v) : v \in Bytes}
        \cup {with_red(c, v) : v \in Bytes}
        \cup {with_green(c, v) : v \in Bytes}
        \cup {with_blue(c, v) : v \in Bytes}
        \cup {Color_index_mut(e, c, ch, v) : ch \in ColorChannel, v \in Bytes}
        \cup {Color_from(s) : s \in Words}

InitPair ==
    /\ endian \in {"little", "big"}
    /\ x = BLACK
    /\ y = BLACK
    /\ cop = "none"
    /\ cargs = <<>>
    /\ cch = NoValue
    /\ cret = -1
    /\ craw = <<>>
    /\ PaletteAtRest

StepX ==
    /\ x' \in Obtainable(endian, x)
    /\ UNCHANGED <<endian, y, cop, cargs, cch, cret, craw, paletteVars>>

StepY ==
    /\ y' \in Obtainable(endian, y)
    /\ UNCHANGED <<endian, x, cop, cargs, cch, cret, craw, paletteVars>>

NextPair == StepX \/ StepY

SpecPair == InitPair /\ [][NextPair]_vars

----------------------------------------------------------------------------
(* static PALETTE: Mutex<Palette> and the Palette handle *)

Callers == 1..NumCallers

PaletteColor == {"Color1", "Color2", "Color3", "Color4"}

\* a translation that sends Color4 to the index of Color3
as_palette_index_dup(c) ==
    CASE c = "Color1" -> 0 [] c = "Color2" -> 1 [] c = "Color3" -> 2 [] c = "Color4" -> 2

as_palette_index(c) ==
    CASE c = "Color1" -> 0 [] c = "Color2" -> 1 [] c = "Color3" -> 2 [] c = "Color4" -> 3

\* the Colors callers assign to palette slots
PaletteValues == {rgb(10, 20, 30)} \cup {grayscale(v) : v \in Bytes}

\* contents of the host register when the guest starts
HostPalettes ==
    { [i \in 0..3 |-> u32_from(BLACK)],
      [i \in 0..3 |-> u32_from(rgb(ByteSamples[i + 1], ByteSamples[i + 2], 0))] }

\* words a dead stack slot may hold when it is read after its frame is gone
StaleWords == {u32_from(c) : c \in PaletteValues}

ColorAtRest ==
    /\ endian = "little"
    /\ x = BLACK
    /\ y = BLACK
    /\ cop = "none"
    /\ cargs = <<>>
    /\ cch = NoValue
    /\ cret = -1
    /\ craw = <<>>

Init ==
    /\ ColorAtRest
    /\ locked = FALSE
    /\ pc = [c \in Callers |-> "idle"]
    /\ handles = [c \in Callers |-> 0]
    /\ reg \in HostPalettes
    /\ tmp = [i \in 0..3 |-> u32_from(BLACK)]
    /\ pop = "none"
    /\ pslot = NoValue
    /\ pval = NoColor
    /\ pret = NoColor

\* a caller enters PALETTE.lock()
CallLock(c) ==
    /\ pc[c] = "idle"
    /\ pc' = [pc EXCEPT ![c] = "spinning"]
    /\ UNCHANGED <<colorVars, locked, handles, reg, tmp, pop, pslot, pval, pret>>

\* a caller that holds the guard enters PALETTE.lock() again
Reenter(c) ==
    /\ pc[c] = "holding"
    /\ pc' = [pc EXCEPT ![c] = "reentering"]
    /\ UNCHANGED <<colorVars, locked, handles, reg, tmp, pop, pslot, pval, pret>>

\* a swap of the flag that takes the lock whatever the flag was
TryLock_noTest(c) ==
    /\ pc[c] \in {"spinning", "reentering"}
    /\ locked' = TRUE
    /\ handles' = [handles EXCEPT ![c] = @ + 1]
    /\ pc' = [pc EXCEPT ![c] = "holding"]
    /\ UNCHANGED <<colorVars, reg, tmp, pop, pslot, pval, pret>>

\* a lock that lets its owner in again
TryLock_reentrant(c) ==
    /\ pc[c] \in {"spinning", "reentering"}
    /\ locked = FALSE \/ handles[c] > 0
    /\ locked' = TRUE
    /\ handles' = [handles EXCEPT ![c] = @ + 1]
    /\ pc' = [pc EXCEPT ![c] = "holding"]
    /\ UNCHANGED <<colorVars, reg, tmp, pop, pslot, pval, pret>>

\* the spin loop's compare-exchange false -> true succeeds and lock() returns
\* the guard; a failed attempt changes nothing and the caller tries again
TryLock(c) ==
    /\ pc[c] \in {"spinning", "reentering"}
    /\ locked = FALSE
    /\ locked' = TRUE
    /\ handles' = [handles EXCEPT ![c] = @ + 1]
    /\ pc' = [pc EXCEPT ![c] = "holding"]
    /\ UNCHANGED <<colorVars, reg, tmp, pop, pslot, pval, pret>>

\* a drop that forgets to clear the flag
Drop_keepLocked(c) ==
    /\ pc[c] = "holding"
    /\ handles[c] > 0
    /\ handles' = [handles EXCEPT ![c] = @ - 1]
    /\ pc' = [pc EXCEPT ![c] = "idle"]
    /\ UNCHANGED <<colorVars, locked, reg, tmp, pop, pslot, pval, pret>>

\* the guard goes out of scope: the flag is stored false
Drop(c) ==
    /\ pc[c] = "holding"
    /\ handles[c] > 0
    /\ handles' = [handles EXCEPT ![c] = @ - 1]
    /\ locked' = FALSE
    /\ pc' = [pc EXCEPT ![c] = "idle"]
    /\ UNCHANGED <<colorVars, reg, tmp, pop, pslot, pval, pret>>

\* let v = palette[slot]
\* `&unsafe { *w4::PALETTE }` borrows a temporary COPY of the register; the
\* returned reference points into that temporary, which is gone when index()
\* returns.  Reading through it gives the copied word or whatever the slot
\* holds by then.
Palette_index(c, slot) ==
    /\ pc[c] = "holding"
    /\ tmp' = reg
    /\ pret' \in {MkColor(reg[as_palette_index(slot)])}
                    \cup {MkColor(w) : w \in StaleWords}
    /\ pop' = "index"
    /\ pslot' = slot
    /\ UNCHANGED <<colorVars, locked, pc, handles, reg, pval>>

\* palette[slot] = v
\* `&mut unsafe { *w4::PALETTE }` borrows a temporary COPY of the register; the
\* store goes to the copy's entry, in a stack slot that is dead by then, and
\* never to the register.
Palette_index_mut(c, slot, v) ==
    /\ pc[c] = "holding"
    /\ tmp' = [reg EXCEPT ![as_palette_index(slot)] = u32_from(v)]
    /\ pop' = "index_mut"
    /\ pslot' = slot
    /\ pval' = v
    /\ UNCHANGED <<colorVars, locked, pc, handles, reg, pret>>

Next ==
    \/ \E c \in Callers : CallLock(c)
    \/ \E c \in Callers : TryLock(c)
    \/ \E c \in Callers : Reenter(c)
    \/ \E c \in Callers : Drop(c)
    \/ \E c \in Callers, slot \in PaletteColor : Palette_index(c, slot)
    \/ \E c \in Callers, slot \in PaletteColor, v \in PaletteValues :
          Palette_index_mut(c, slot, v)

Spec == Init /\ [][Next]_vars

\* every caller inside lock() keeps attempting the compare-exchange, and a
\* holder that is not itself stuck in lock() lets its guard go out of scope
Fairness ==
    /\ \A c \in Callers : WF_vars(TryLock(c))
    /\ \A c \in Callers : WF_vars(Drop(c))

FairSpec == Spec /\ Fairness

----------------------------------------------------------------------------
(* Properties of Color *)

\* the byte of the container, by significance, that holds a channel:
\* red is bits 16-23, green bits 8-15, blue bits 0-7
FieldOf(channel) ==
    CASE channel = "Red" -> 2 [] channel = "Green" -> 1 [] channel = "Blue" -> 0

\* C4: rgb(r,g,b) packs red into bits 16-23, green into bits 8-15 and blue
\* into bits 0-7, and reading it by channel gives back r, g and b, with the
\* little-endian offset table on the little-endian memory image and with
\* the big-endian table on the big-endian image.
C4_RgbChannelRoundTrip ==
    cop = "rgb" =>
        /\ u32_from(x) = Word(0, cargs[1], cargs[2], cargs[3])
        /\ \A e \in {"little", "big"} :
              /\ Color_index(e, x, "Red") = cargs[1]
              /\ Color_index(e, x, "Green") = cargs[2]
              /\ Color_index(e, x, "Blue") = cargs[3]

C4_Witness ==
    /\ cop = "rgb"
    /\ cargs[1] # cargs[2]
    /\ cargs[2] # cargs[3]
    /\ Color_index(endian, x, "Green") = cargs[2]

\* C5: after x[ch] = v, reading x[ch] gives v and the three other bytes of
\* the container, the top byte (bits 24-31) among them, are what they were.
C5_ChannelWriteFrame ==
    [][cop' = "index_mut" =>
        /\ Color_index(endian, x', cch') = cargs'[1]
        /\ u32_from(x')[FieldOf(cch')] = cargs'[1]
        /\ \A k \in 0..3 \ {FieldOf(cch')} : u32_from(x')[k] = u32_from(x)[k]]_vars

C5_Witness ==
    /\ cop = "index_mut"
    /\ u32_from(x)[3] # 0
    /\ Color_index(endian, x, cch) = cargs[1]
    /\ \E ch \in ColorChannel : Color_index(endian, x, ch) # cargs[1]

\* C6: with_red, with_green and with_blue return a value whose targeted
\* 8-bit field is the new byte and whose 24 other bits, bits 24-31 among
\* them, are those of the value they were applied to.
C6_WithChannel ==
    [][cop' \in {"with_red", "with_green", "with_blue"} =>
        LET k == CASE cop' = "with_red" -> 2 [] cop' = "with_green" -> 1
                   [] cop' = "with_blue" -> 0
        IN  /\ u32_from(x')[k] = cargs'[1]
            /\ \A j \in 0..3 \ {k} : u32_from(x')[j] = u32_from(x)[j]]_vars

C6_Witness ==
    /\ cop = "with_green"
    /\ u32_from(x)[3] # 0
    /\ u32_from(x)[1] = cargs[1]
    /\ u32_from(x)[2] # cargs[1]

\* C7: Color <-> u32 is lossless both ways: u32::from(Color::from(n)) = n
\* for every n, non-zero bits 24-31 included, and Color::from(u32::from(c)) = c.
C7_RawRoundTrip ==
    /\ cop = "from_u32" => u32_from(x) = craw[1]
    /\ cop = "u32_from" => Color_from(craw[1]) = x

C7_Witness ==
    /\ cop = "u32_from"
    /\ craw[1][3] # 0
    /\ Color_from(craw[1]) = x

SameChannels(e, a, b) ==
    \A ch \in ColorChannel : Color_index(e, a, ch) = Color_index(e, b, ch)

\* C8: any two obtainable Colors whose Red, Green and Blue channels are
\* equal have the same container value and compare equal.
C8_OnePackedRepresentation ==
    SameChannels(endian, x, y) => x = y

\* C8, amended: two obtainable Colors whose three channels are equal and
\* whose bits 24-31 are equal have the same container value.
C8_OnePackedUpToTopByte ==
    (SameChannels(endian, x, y) /\ u32_from(x)[3] = u32_from(y)[3]) => x = y

C8_Witness ==
    /\ SameChannels(endian, x, y)
    /\ u32_from(x)[3] = u32_from(y)[3]
    /\ u32_from(x)[3] # 0
    /\ Color_index(endian, x, "Red") # Color_index(endian, x, "Green")

----------------------------------------------------------------------------
(* Properties of the PALETTE lock and of the Palette handle *)

LiveHandles == {c \in Callers : handles[c] > 0}

\* C1: whatever the interleaving of the callers' acquires and releases, at
\* most one Palette handle is live: no two callers are at once between a
\* completed acquire and the matching release, and no caller owns two guards.
C1_AtMostOneHandle ==
    /\ Cardinality(LiveHandles) <= 1
    /\ \A c \in Callers : handles[c] <= 1
    /\ \A c \in Callers : pc[c] \in {"holding", "reentering"} <=> handles[c] = 1

C1_Witness ==
    \E c \in Callers, d \in Callers :
        /\ c # d
        /\ handles[c] = 1
        /\ pc[c] = "holding"
        /\ pc[d] = "spinning"

\* C2: once a holder has executed palette[s] = c, the live register entry
\* of s holds c (so a later read of s, with no write to s in between, gives c).
C2_WriteThrough ==
    pop = "index_mut" => reg[as_palette_index(pslot)] = u32_from(pval)

\* C3: palette[s] = c leaves the register entries of the three other slots
\* as they were, and stores to no entry but that of s: the translation
\* Color1..Color4 -> 0..3 is injective and in bounds.
C3_SlotWriteIsolation ==
    /\ [](/\ \A s \in PaletteColor : as_palette_index(s) \in 0..3
          /\ \A s \in PaletteColor, t \in PaletteColor :
                as_palette_index(s) = as_palette_index(t) => s = t)
    /\ [][pop' = "index_mut" =>
            \A s \in PaletteColor \ {pslot'} :
                /\ reg'[as_palette_index(s)] = reg[as_palette_index(s)]
                /\ tmp'[as_palette_index(s)] = reg[as_palette_index(s)]]_vars

C3_Witness ==
    /\ pop = "index_mut"
    /\ tmp[as_palette_index(pslot)] = u32_from(pval)
    /\ \A s \in PaletteColor \ {pslot} : tmp[as_palette_index(s)] # u32_from(pval)

\* Locked is exactly one live handle, Unlocked is none
C9_TwoStates ==
    /\ locked \in BOOLEAN
    /\ locked <=> Cardinality(LiveHandles) = 1
    /\ ~locked <=> LiveHandles = {}

\* Unlocked -> Locked is a completed acquire, Locked -> Unlocked is a drop
C9_Transitions ==
    /\ (~locked /\ locked') =>
          \E c \in Callers : /\ pc[c] = "spinning"
                             /\ pc'[c] = "holding"
                             /\ handles'[c] = handles[c] + 1
    /\ (locked /\ ~locked') =>
          \E c \in Callers : /\ pc[c] = "holding"
                             /\ pc'[c] = "idle"
                             /\ handles'[c] = handles[c] - 1

Spinning(c) == pc[c] = "spinning"

SomeoneReentered == \E d \in Callers : pc[d] = "reentering"

\* C9: the lock has the two states Unlocked and Locked, acquire and drop
\* are the only transitions, and every acquire attempted by a caller that
\* does not hold the handle eventually completes, as long as no holder
\* re-enters (holders release: see Fairness).
C9_EveryAcquireCompletes ==
    /\ []C9_TwoStates
    /\ [][C9_Transitions]_vars
    /\ \A c \in Callers : Spinning(c) ~> (pc[c] = "holding" \/ SomeoneReentered)

\* C9, amended: the two states and their transitions as above; when the
\* lock is Unlocked and some caller attempts to acquire, an acquire completes;
\* and a caller waits forever only if other callers take the lock again and
\* again ahead of it (or a holder has re-entered).
C9_SomeAcquireCompletes ==
    /\ []C9_TwoStates
    /\ [][C9_Transitions]_vars
    /\ (~locked /\ \E c \in Callers : Spinning(c)) ~> locked
    /\ \A c \in Callers :
          \/ []<>(~Spinning(c))
          \/ []<>(\E d \in Callers \ {c} : pc[d] = "holding")
          \/ <>SomeoneReentered

C9_Witness ==
    \E c \in Callers, d \in Callers :
        /\ c # d
        /\ pc[c] = "spinning"
        /\ pc[d] = "idle"
        /\ ~locked
        /\ pop = "index_mut"

\* C10: a caller that acquires again while it holds the handle stays in
\* lock() for ever: the lock stays Locked, the caller gets no second handle,
\* and nothing else happens to it.
C10_ReentryBlocksForever ==
    /\ [](\A c \in Callers : pc[c] = "reentering" => (locked /\ handles[c] = 1))
    /\ [][\A c \in Callers : pc[c] = "reentering" =>
            /\ pc'[c] = "reentering"
            /\ locked'
            /\ handles' = handles]_vars

C10_Witness ==
    \E c \in Callers, d \in Callers :
        /\ c # d
        /\ pc[c] = "reentering"
        /\ pc[d] = "spinning"
        /\ handles[c] = 1
        /\ handles[d] = 0

=============================================================================
